---- MODULE Spec2Model ----
(***************************************************************************)
(* img-similarity-cluster: the clustering tool with the parallel           *)
(* comparator (tool "cluster"), its older variant that reports unique      *)
(* images (tool "unique"), and the point-query tool img-search (tool       *)
(* "search").                                                              *)
(*                                                                         *)
(* Images are identified by their index in file_list.  The external        *)
(* Hasher is an input of the model: file_list[i] says whether cv::imread   *)
(* yields data for image i, and dist[<<i, j>>] is what                     *)
(* hash_func->compare returns for the fingerprints of images i and j.      *)
(***************************************************************************)
EXTENDS Integers, Sequences, FiniteSets, Bags, TLC

\* Bounds of the concurrent specifications.
MaxFiles == 3
MaxThreads == 2
MaxUnreadable == 1

\* Bounds of the specification of img-search.
SearchFiles == 2
MaxSearch == 2

\* Bounds of the single-worker specification of larger collections.
SeqFiles == 5
SeqDist == 2
SeqNear == 4

VARIABLES
    tool,                \* which program runs
    target,              \* the -d option: "missing", "nodir" or "ok"
    one_line,            \* the -l option
    show_unique,         \* the -u option of the older variant
    file_list,           \* id -> TRUE iff cv::imread returns image data
    dist,                \* <<i, j>>, i < j, both readable -> distance of the fingerprints
    threshold,           \* double threshold
    num_threads,         \* unsigned int num_threads
    search_list,         \* img-search: id -> TRUE iff cv::imread returns image data
    sdist,               \* img-search: <<file id, search id>>, both readable -> distance
    hash_list,           \* hash_list / img_hash_values
    image_similarities,  \* std::map<unsigned long, std::set<unsigned long>>
    image_clusters,      \* std::vector<std::set<unsigned long>>
    mu,                  \* std::mutex mu: the set of threads holding it
    pc,                  \* position of main()
    k,                   \* index of main's thread creation / join loops
    hash_thr,            \* per thread: position in calculate_hash_values
    cmp_thr,             \* per thread: position in calculate_similar_pairs
    compared,            \* bag of <<i, j, thread_id>>: calls of hash_func->compare
    cluster_it,          \* number of map entries the clustering loop has visited
    cout,                \* what has been written to std::cout
    image_deltas,        \* unique: std::map<pair, double>
    unique_images,       \* unique: std::set<unsigned long>
    search_hash_values,  \* img-search: hashes of the search list
    results,             \* img-search: std::set<unsigned long>
    stack,               \* the active calls of build_temp_cluster, the innermost last
    in_cluster,          \* std::set<unsigned long> temp_cluster of the clustering loop
    calls,               \* bag of the ids build_temp_cluster was called with, per seed
    lines,               \* view-similar: files.size() of every line of std::cin
    line_no,             \* view-similar: number of lines read
    current_image,       \* view-similar: int current_image
    last_key,            \* view-similar: int key
    shown,               \* view-similar: what the window shows
    presses,             \* view-similar: number of keys waitKey has returned
    prev                 \* result of the previous run of the tool on the same images

inputs == <<tool, target, one_line, show_unique, file_list, dist, threshold, num_threads,
            search_list, sdist>>

\* state of the traversal taken call by call
walk == <<stack, in_cluster, calls>>

\* state of view-similar
viewer == <<lines, line_no, current_image, last_key, shown, presses>>

\* state of the older variant, of img-search, of the traversal and of view-similar
others == <<image_deltas, unique_images, search_hash_values, results, walk, viewer>>

vars == <<inputs, hash_list, image_similarities, image_clusters, mu, pc, k, hash_thr,
          cmp_thr, compared, cluster_it, cout, others, prev>>

----------------------------------------------------------------------------
\* Helpers

Min(S) == CHOOSE x \in S : \A y \in S : x <= y

Ids(n) == 0 .. (n - 1)

Pairs(n) == {p \in Ids(n) \X Ids(n) : p[1] < p[2]}

PairsOf(S) == {p \in S \X S : p[1] < p[2]}

\* the results of hash_func->compare the concurrent specifications draw from, and
\* their thresholds: a distance enters the programs only through "<= threshold"
DistRange == {0, 1}

Size(f) == Cardinality(DOMAIN f)

Threads == 0 .. (num_threads - 1)

EmptyMap == [x \in {} |-> {}]

NoPrev == [valid |-> FALSE, sims |-> EmptyMap, clusters |-> <<>>,
           threshold |-> 0, num_threads |-> 1]

\* mutant of HasData: only the default-constructed Mat counts as empty
HasData_failed_read(m) == m # "default"

\* cv::Mat::data is null for a default-constructed Mat and for the Mat of a failed imread
HasData(m) == m = "hash"

\* mutant of NextOwn: the check for the correct thread is missing
NextOwn_every_image(from, t) ==
    LET own == from .. (Size(file_list) - 1)
    IN  IF own = {} THEN Size(file_list) ELSE Min(own)

\* the outer loops' filter: the first index >= from that belongs to thread t
NextOwn(from, t) ==
    LET own == {x \in from .. (Size(file_list) - 1) : x % num_threads = t}
    IN  IF own = {} THEN Size(file_list) ELSE Min(own)

\* mutant of NextPair: the rows are dealt out for two workers, whatever num_threads
NextPair_two_workers(i, j, t) ==
    LET n == Size(hash_list)
        cand == {p \in Pairs(n) :
                    /\ p[1] % 2 = t
                    /\ HasData(hash_list[p[1]])
                    /\ HasData(hash_list[p[2]])
                    /\ \/ p[1] > i
                       \/ p[1] = i /\ p[2] >= j}
    IN  IF cand = {} THEN <<n, n>>
        ELSE LET a == Min({p[1] : p \in cand})
             IN  <<a, Min({p[2] : p \in {q \in cand : q[1] = a}})>>

\* mutant of NextPair: the check for the correct thread is missing
NextPair_all_rows(i, j, t) ==
    LET n == Size(hash_list)
        cand == {p \in Pairs(n) :
                    /\ HasData(hash_list[p[1]])
                    /\ HasData(hash_list[p[2]])
                    /\ \/ p[1] > i
                       \/ p[1] = i /\ p[2] >= j}
    IN  IF cand = {} THEN <<n, n>>
        ELSE LET a == Min({p[1] : p \in cand})
             IN  <<a, Min({p[2] : p \in {q \in cand : q[1] = a}})>>

\* the position of calculate_similar_pairs' loops at the next compare call at or
\* after (i, j): i belongs to thread t, both fingerprints have data, j > i
NextPair(i, j, t) ==
    LET n == Size(hash_list)
        cand == {p \in Pairs(n) :
                    /\ p[1] % num_threads = t
                    /\ HasData(hash_list[p[1]])
                    /\ HasData(hash_list[p[2]])
                    /\ \/ p[1] > i
                       \/ p[1] = i /\ p[2] >= j}
    IN  IF cand = {} THEN <<n, n>>
        ELSE LET a == Min({p[1] : p \in cand})
             IN  <<a, Min({p[2] : p \in {q \in cand : q[1] = a}})>>

\* hash_func->compare(hash_list.at(i), hash_list.at(j)); two Mats without data
\* have distance 0
Compare(i, j) == IF <<i, j>> \in DOMAIN dist THEN dist[<<i, j>>] ELSE 0

\* mutant of Emplace: the entry of i is replaced by the set that holds j alone
Emplace_overwrite(m, i, j) ==
    IF i \in DOMAIN m THEN [m EXCEPT ![i] = {j}] ELSE m @@ (i :> {j})

\* mutant of Emplace: j is added only if the entry of i existed already
Emplace_else_branch(m, i, j) ==
    IF i \in DOMAIN m THEN [m EXCEPT ![i] = @ \cup {j}] ELSE m @@ (i :> {})

\* lines 139-142: create the entry of i if needed, then add j to it
Emplace(m, i, j) ==
    LET m1 == IF i \in DOMAIN m THEN m ELSE m @@ (i :> {})
    IN  [m1 EXCEPT ![i] = @ \cup {j}]

RECURSIVE build_temp_cluster(_, _, _)
RECURSIVE VisitNeighbours(_, _, _)

\* the for loop of build_temp_cluster over the (ordered) set of neighbours
VisitNeighbours(temp_cluster, sims, rest) ==
    IF rest = {} THEN temp_cluster
    ELSE LET i == Min(rest)
         IN  IF i \in temp_cluster
             THEN VisitNeighbours(temp_cluster, sims, rest \ {i})
             ELSE VisitNeighbours(build_temp_cluster(temp_cluster \cup {i}, sims, i),
                                  sims, rest \ {i})

build_temp_cluster(temp_cluster, sims, start) ==
    IF start \notin DOMAIN sims THEN temp_cluster
    ELSE VisitNeighbours(temp_cluster, sims, sims[start])

\* mutant of MergeOrPush: temp_cluster is always added as a new cluster
MergeOrPush_always_push(clusters, temp_cluster) == Append(clusters, temp_cluster)

\* lines 357-380: merge temp_cluster into the first cluster it shares an element
\* with, else append it
MergeOrPush(clusters, temp_cluster) ==
    LET hits == {x \in 1 .. Len(clusters) : clusters[x] \cap temp_cluster # {}}
    IN  IF hits = {} THEN Append(clusters, temp_cluster)
        ELSE [clusters EXCEPT ![Min(hits)] = @ \cup temp_cluster]

\* the key of the (n)th entry of the map in iteration (ascending key) order
RECURSIVE KeyAt(_, _)
KeyAt(keys, n) == IF n = 1 THEN Min(keys) ELSE KeyAt(keys \ {Min(keys)}, n - 1)

\* an item written to std::cout: a text, its argument (a count or the id of the
\* file whose path is printed) and what ends it
Out(text, arg, end) == [text |-> text, arg |-> arg, end |-> end]

\* the elements of a std::set in iteration order
RECURSIVE InOrder(_)
InOrder(S) == IF S = {} THEN <<>> ELSE <<Min(S)>> \o InOrder(S \ {Min(S)})

\* mutant of PrintFrom: the cluster header is printed with -l too
RECURSIVE PrintFrom_with_header(_, _, _)
PrintFrom_with_header(clusters, x, oneline) ==
    IF x > Len(clusters) THEN <<>>
    ELSE LET members == InOrder(clusters[x])
         IN  <<Out("image cluster", x - 1, ":\n")>>
             \o [m \in 1 .. Len(members) |->
                   Out("path", members[m], IF oneline THEN "\t" ELSE "\n")]
             \o (IF oneline THEN <<Out("", 0, "\n")>> ELSE <<>>)
             \o PrintFrom_with_header(clusters, x + 1, oneline)

\* lines 385-397: the output for the clusters from index x on
RECURSIVE PrintFrom(_, _, _)
PrintFrom(clusters, x, oneline) ==
    IF x > Len(clusters) THEN <<>>
    ELSE LET members == InOrder(clusters[x])
         IN  (IF oneline THEN <<>> ELSE <<Out("image cluster", x - 1, ":\n")>>)
             \o [m \in 1 .. Len(members) |->
                   Out("path", members[m], IF oneline THEN "\t" ELSE "\n")]
             \o (IF oneline THEN <<Out("", 0, "\n")>> ELSE <<>>)
             \o PrintFrom(clusters, x + 1, oneline)

----------------------------------------------------------------------------
\* The state at the start of main()

NoThreads(nt) == [t \in 0 .. (nt - 1) |-> [pc |-> "unstarted", i |-> 0, j |-> 0]]

\* the window before the first imshow
NotShown == [line |-> 0, image |-> 0, status |-> 0]

\* the traversal and view-similar before they run
Idle ==
    /\ stack = <<>>
    /\ in_cluster = {}
    /\ calls = EmptyBag
    /\ lines = <<>>
    /\ line_no = 0
    /\ current_image = 0
    /\ last_key = 0
    /\ shown = NotShown
    /\ presses = 0

Start(tl, tg, ol, su, fl, d, th, nt, sl, sd) ==
    /\ tool = tl
    /\ target = tg
    /\ one_line = ol
    /\ show_unique = su
    /\ file_list = fl
    /\ dist = d
    /\ threshold = th
    /\ num_threads = nt
    /\ search_list = sl
    /\ sdist = sd
    /\ hash_list = EmptyMap
    /\ image_similarities = EmptyMap
    /\ image_clusters = <<>>
    /\ mu = {}
    /\ pc = "args"
    /\ k = 0
    /\ hash_thr = NoThreads(nt)
    /\ cmp_thr = NoThreads(nt)
    /\ compared = EmptyBag
    /\ cluster_it = 0
    /\ cout = <<>>
    /\ image_deltas = EmptyMap
    /\ unique_images = {}
    /\ search_hash_values = EmptyMap
    /\ results = {}
    /\ Idle

\* the collections of at most maxFiles images, at most maxUnreadable of them
\* unreadable
FileLists(maxFiles, maxUnreadable) ==
    UNION {{f \in [Ids(n) -> BOOLEAN] :
               Cardinality({x \in Ids(n) : ~f[x]}) <= maxUnreadable} :
           n \in 0 .. maxFiles}

\* the readable images of a collection
Readable(fl) == {x \in DOMAIN fl : fl[x]}

\* the distances, drawn from dists, of the pairs of readable images, at most
\* maxNear of them below the largest
Distances(fl, dists, maxNear) ==
    {e \in [PairsOf(Readable(fl)) -> dists] :
        Cardinality({p \in DOMAIN e : \E far \in dists : e[p] < far}) <= maxNear}

InitOf(targets, oneLines, maxFiles, maxThreads, dists, maxUnreadable, maxNear) ==
    \E tg \in targets, ol \in oneLines :
      \E fl \in FileLists(maxFiles, maxUnreadable) :
        \E d \in Distances(fl, dists, maxNear) :
          \E th \in dists, nt \in 1 .. maxThreads :
              /\ Start("cluster", tg, ol, FALSE, fl, d, th, nt, EmptyMap, EmptyMap)
              /\ prev = NoPrev

Init ==
    InitOf({"missing", "nodir", "ok"}, BOOLEAN, MaxFiles, MaxThreads, DistRange,
           MaxUnreadable, MaxFiles * MaxFiles)

InitSeq == InitOf({"ok"}, {FALSE}, SeqFiles, 1, 0 .. SeqDist, 0, SeqNear)

----------------------------------------------------------------------------
\* Arguments and file list (lines 185-298)

\* mutant of CheckArgs: the error branches print their message and do not return
CheckArgs_no_return ==
    /\ pc = "args"
    /\ tool = "cluster"
    /\ cout' = IF target = "missing" THEN <<Out("Error: missing argument -d", 0, "\n")>>
               ELSE IF target = "nodir" THEN <<Out("Error: Couldn't open", 0, "\n")>>
               ELSE IF one_line THEN <<>>
               ELSE <<Out("Filelist created", Size(file_list), " files.\n")>>
    /\ pc' = "hash_spawn"
    /\ hash_list' = [i \in DOMAIN file_list |-> "default"]
    /\ UNCHANGED <<inputs, image_similarities, image_clusters, mu, k, hash_thr,
                   cmp_thr, compared, cluster_it, others, prev>>

CheckArgs ==
    /\ pc = "args"
    /\ tool = "cluster"
    /\ IF target = "missing"
       THEN /\ cout' = <<Out("Error: missing argument -d", 0, "\n")>>
            /\ pc' = "done"
            /\ hash_list' = hash_list
       ELSE IF target = "nodir"
       THEN /\ cout' = <<Out("Error: Couldn't open", 0, "\n")>>
            /\ pc' = "done"
            /\ hash_list' = hash_list
       ELSE /\ cout' = IF one_line THEN <<>>
                       ELSE <<Out("Filelist created", Size(file_list), " files.\n")>>
            /\ pc' = "hash_spawn"
            /\ hash_list' = [i \in DOMAIN file_list |-> "default"]
    /\ UNCHANGED <<inputs, image_similarities, image_clusters, mu, k, hash_thr,
                   cmp_thr, compared, cluster_it, others, prev>>

----------------------------------------------------------------------------
\* Hash phase (lines 305-316, 74-104)

\* main: t.at(i) = thread(calculate_hash_values, ..., i, num_threads)
SpawnHash ==
    /\ pc = "hash_spawn"
    /\ tool = "cluster"
    /\ hash_thr' = [hash_thr EXCEPT ![k] = [pc |-> "run", i |-> NextOwn(0, k), j |-> 0]]
    /\ IF k + 1 < num_threads
       THEN k' = k + 1 /\ pc' = pc
       ELSE k' = 0 /\ pc' = "hash_join"
    /\ UNCHANGED <<inputs, hash_list, image_similarities, image_clusters, mu,
                   cmp_thr, compared, cluster_it, cout, others, prev>>

\* mutant of calculate_hash_values: the loop runs while i <= file_list.size(), so
\* file_list.at(i) throws at the end of the list and the process is terminated
calculate_hash_values_off_by_one(t) ==
    /\ hash_thr[t].pc = "run"
    /\ tool = "cluster"
    /\ LET i == hash_thr[t].i
       IN  IF i >= Size(file_list)
           THEN /\ hash_thr' = [hash_thr EXCEPT ![t].pc = "terminate"]
                /\ hash_list' = hash_list
           ELSE /\ hash_list' = [hash_list EXCEPT
                                   ![i] = IF file_list[i] THEN "hash" ELSE "empty"]
                /\ hash_thr' = [hash_thr EXCEPT ![t].i = NextOwn(i + 1, t)]
    /\ UNCHANGED <<inputs, image_similarities, image_clusters, mu, pc, k,
                   cmp_thr, compared, cluster_it, cout, others, prev>>

\* one iteration of the loop for an image of thread t, or the return
calculate_hash_values(t) ==
    /\ hash_thr[t].pc = "run"
    /\ tool = "cluster"
    /\ LET i == hash_thr[t].i
       IN  IF i >= Size(file_list)
           THEN /\ hash_thr' = [hash_thr EXCEPT ![t].pc = "exit"]
                /\ hash_list' = hash_list
           ELSE /\ hash_list' = [hash_list EXCEPT
                                   ![i] = IF file_list[i] THEN "hash" ELSE "empty"]
                /\ hash_thr' = [hash_thr EXCEPT ![t].i = NextOwn(i + 1, t)]
    /\ UNCHANGED <<inputs, image_similarities, image_clusters, mu, pc, k,
                   cmp_thr, compared, cluster_it, cout, others, prev>>

\* mutant of Joinable: join returns at once
Joinable_no_wait(thr) == TRUE

\* std::thread::join returns once the thread function has returned
Joinable(thr) == thr.pc = "exit"

\* main: t.at(i).join(); after the last join the progress message
JoinHash ==
    /\ pc = "hash_join"
    /\ tool = "cluster"
    /\ Joinable(hash_thr[k])
    /\ IF k + 1 < num_threads
       THEN k' = k + 1 /\ pc' = pc /\ cout' = cout
       ELSE /\ k' = 0
            /\ pc' = "cmp_spawn"
            /\ cout' = IF one_line THEN cout
                       ELSE Append(cout, Out("Finished hash calculations.", 0, "\n"))
    /\ UNCHANGED <<inputs, hash_list, image_similarities, image_clusters, mu,
                   hash_thr, cmp_thr, compared, cluster_it, others, prev>>

----------------------------------------------------------------------------
\* Comparison phase (lines 322-336, 115-148)

SpawnCmp ==
    /\ pc = "cmp_spawn"
    /\ LET p == NextPair(0, 0, k)
       IN  cmp_thr' = [cmp_thr EXCEPT ![k] = [pc |-> "loop", i |-> p[1], j |-> p[2]]]
    /\ IF k + 1 < num_threads
       THEN k' = k + 1 /\ pc' = pc
       ELSE k' = 0 /\ pc' = "cmp_join"
    /\ UNCHANGED <<inputs, hash_list, image_similarities, image_clusters, mu,
                   hash_thr, compared, cluster_it, cout, others, prev>>

\* line 137: the compare call for the pair (i, j), or the return
CompareStep(t) ==
    /\ cmp_thr[t].pc = "loop"
    /\ LET i == cmp_thr[t].i
           j == cmp_thr[t].j
       IN  IF i >= Size(hash_list)
           THEN /\ cmp_thr' = [cmp_thr EXCEPT ![t].pc = "exit"]
                /\ compared' = compared
           ELSE /\ compared' = compared (+) SetToBag({<<i, j, t>>})
                /\ IF Compare(i, j) <= threshold
                   THEN cmp_thr' = [cmp_thr EXCEPT ![t].pc = "lock"]
                   ELSE LET p == NextPair(i, j + 1, t)
                        IN  cmp_thr' = [cmp_thr EXCEPT ![t].i = p[1], ![t].j = p[2]]
    /\ UNCHANGED <<inputs, hash_list, image_similarities, image_clusters, mu, pc, k,
                   hash_thr, cluster_it, cout, others, prev>>

\* mutant of Lock: the mutex is taken without waiting for its holder
Lock_no_wait(t) ==
    /\ cmp_thr[t].pc = "lock"
    /\ mu' = mu \cup {t}
    /\ cmp_thr' = [cmp_thr EXCEPT ![t].pc = "insert"]
    /\ UNCHANGED <<inputs, hash_list, image_similarities, image_clusters, pc, k,
                   hash_thr, compared, cluster_it, cout, others, prev>>

\* line 138: mu.lock()
Lock(t) ==
    /\ cmp_thr[t].pc = "lock"
    /\ mu = {}
    /\ mu' = {t}
    /\ cmp_thr' = [cmp_thr EXCEPT ![t].pc = "insert"]
    /\ UNCHANGED <<inputs, hash_list, image_similarities, image_clusters, pc, k,
                   hash_thr, compared, cluster_it, cout, others, prev>>

\* lines 139-142
Insert(t) ==
    /\ cmp_thr[t].pc = "insert"
    /\ image_similarities' = Emplace(image_similarities, cmp_thr[t].i, cmp_thr[t].j)
    /\ cmp_thr' = [cmp_thr EXCEPT ![t].pc = "unlock"]
    /\ UNCHANGED <<inputs, hash_list, image_clusters, mu, pc, k, hash_thr,
                   compared, cluster_it, cout, others, prev>>

\* line 143: mu.unlock(), and on to the next pair
Unlock(t) ==
    /\ cmp_thr[t].pc = "unlock"
    /\ mu' = mu \ {t}
    /\ LET p == NextPair(cmp_thr[t].i, cmp_thr[t].j + 1, t)
       IN  cmp_thr' = [cmp_thr EXCEPT ![t] = [pc |-> "loop", i |-> p[1], j |-> p[2]]]
    /\ UNCHANGED <<inputs, hash_list, image_similarities, image_clusters, pc, k,
                   hash_thr, compared, cluster_it, cout, others, prev>>

\* main: t.at(i).join(); after the last join hash_list is cleared (lines 332-333)
JoinCmp ==
    /\ pc = "cmp_join"
    /\ Joinable(cmp_thr[k])
    /\ IF k + 1 < num_threads
       THEN k' = k + 1 /\ pc' = pc /\ hash_list' = hash_list /\ cout' = cout
       ELSE /\ k' = 0
            /\ pc' = "cluster"
            /\ hash_list' = EmptyMap
            /\ cout' = IF one_line THEN cout
                       ELSE Append(cout, Out("Adjacency lists created.", 0, "\n"))
    /\ UNCHANGED <<inputs, image_similarities, image_clusters, mu,
                   hash_thr, cmp_thr, compared, cluster_it, others, prev>>

----------------------------------------------------------------------------
\* Clustering (lines 342-399)

\* one iteration of the loop over image_similarities
ClusterStep ==
    /\ pc = "cluster"
    /\ cluster_it < Size(image_similarities)
    /\ LET first == KeyAt(DOMAIN image_similarities, cluster_it + 1)
           second == image_similarities[first]
       IN  IF second = {}
           THEN /\ image_clusters' = image_clusters
                /\ cout' = Append(cout, Out("ok1", 0, "\n"))
           ELSE /\ image_clusters' =
                     MergeOrPush(image_clusters,
                                 build_temp_cluster({first}, image_similarities, first))
                /\ cout' = cout
    /\ cluster_it' = cluster_it + 1
    /\ UNCHANGED <<inputs, hash_list, image_similarities, mu, pc, k,
                   hash_thr, cmp_thr, compared, others, prev>>

\* the loop is over: the clusters are printed and main returns
PrintClusters ==
    /\ pc = "cluster"
    /\ cluster_it = Size(image_similarities)
    /\ cout' = cout \o PrintFrom(image_clusters, 1, one_line)
    /\ pc' = "done"
    /\ UNCHANGED <<inputs, hash_list, image_similarities, image_clusters, mu, k,
                   hash_thr, cmp_thr, compared, cluster_it, others, prev>>

----------------------------------------------------------------------------
\* Running the tool again on the same images

Rerun(nt, th) ==
    /\ pc = "done"
    /\ ~prev.valid
    /\ prev' = [valid |-> TRUE, sims |-> image_similarities,
                clusters |-> image_clusters, threshold |-> threshold,
                num_threads |-> num_threads]
    /\ threshold' = th
    /\ num_threads' = nt
    /\ hash_list' = EmptyMap
    /\ image_similarities' = EmptyMap
    /\ image_clusters' = <<>>
    /\ pc' = "args"
    /\ hash_thr' = NoThreads(nt)
    /\ cmp_thr' = NoThreads(nt)
    /\ compared' = EmptyBag
    /\ cluster_it' = 0
    /\ cout' = <<>>
    /\ UNCHANGED <<tool, target, one_line, show_unique, file_list, dist,
                   search_list, sdist, mu, k, others>>

\* the steps of main and of the workers up to the last join
PhaseSteps ==
    \/ CheckArgs
    \/ SpawnHash
    \/ \E t \in Threads : calculate_hash_values(t)
    \/ JoinHash
    \/ SpawnCmp
    \/ \E t \in Threads : CompareStep(t)
    \/ \E t \in Threads : Lock(t)
    \/ \E t \in Threads : Insert(t)
    \/ \E t \in Threads : Unlock(t)
    \/ JoinCmp

Next ==
    \/ PhaseSteps
    \/ ClusterStep
    \/ PrintClusters

Spec == Init /\ [][Next]_vars

\* the tool is run twice, with any two worker counts, at the same threshold
RerunThreads == \E nt \in 1 .. MaxThreads : Rerun(nt, threshold)

NextRerun == Next \/ RerunThreads

SpecRerun == Init /\ [][NextRerun]_vars

\* a single worker, larger collections; the second run has a larger threshold
RerunThreshold == \E th \in (threshold + 1) .. SeqDist : Rerun(1, th)

NextSeq == Next \/ RerunThreshold

SpecSeq == InitSeq /\ [][NextSeq]_vars

----------------------------------------------------------------------------
\* calculate_hash_values of the older variant and of img-search: the hashes are
\* inserted into a std::map under the mutex

\* main: t[i] = thread(calculate_hash_values, ..., i, num_threads)
SpawnMapHash ==
    /\ pc = "hash_spawn"
    /\ tool \in {"unique", "search"}
    /\ hash_thr' = [hash_thr EXCEPT ![k] = [pc |-> "run", i |-> NextOwn(0, k), j |-> 0]]
    /\ IF k + 1 < num_threads
       THEN k' = k + 1 /\ pc' = pc
       ELSE k' = 0 /\ pc' = "hash_join"
    /\ UNCHANGED <<inputs, hash_list, image_similarities, image_clusters, mu,
                   cmp_thr, compared, cluster_it, cout, others, prev>>

\* imread and compute for the next image of thread t; an image without data is
\* skipped; or the return
ReadImage(t) ==
    /\ hash_thr[t].pc = "run"
    /\ tool \in {"unique", "search"}
    /\ LET i == hash_thr[t].i
       IN  IF i >= Size(file_list)
           THEN hash_thr' = [hash_thr EXCEPT ![t].pc = "exit"]
           ELSE IF ~file_list[i]
           THEN hash_thr' = [hash_thr EXCEPT ![t].i = NextOwn(i + 1, t)]
           ELSE hash_thr' = [hash_thr EXCEPT ![t].pc = "lock"]
    /\ UNCHANGED <<inputs, hash_list, image_similarities, image_clusters, mu, pc, k,
                   cmp_thr, compared, cluster_it, cout, others, prev>>

\* mu.lock()
LockHash(t) ==
    /\ hash_thr[t].pc = "lock"
    /\ mu = {}
    /\ mu' = {t}
    /\ hash_thr' = [hash_thr EXCEPT ![t].pc = "insert"]
    /\ UNCHANGED <<inputs, hash_list, image_similarities, image_clusters, pc, k,
                   cmp_thr, compared, cluster_it, cout, others, prev>>

\* std::map::insert: an existing entry is kept
MapInsert(m, key, value) == IF key \in DOMAIN m THEN m ELSE m @@ (key :> value)

\* hash_list.insert(pair(i, current_hash))
InsertHash(t) ==
    /\ hash_thr[t].pc = "insert"
    /\ hash_list' = MapInsert(hash_list, hash_thr[t].i, "hash")
    /\ hash_thr' = [hash_thr EXCEPT ![t].pc = "unlock"]
    /\ UNCHANGED <<inputs, image_similarities, image_clusters, mu, pc, k,
                   cmp_thr, compared, cluster_it, cout, others, prev>>

\* mu.unlock(), and on to the next image
UnlockHash(t) ==
    /\ hash_thr[t].pc = "unlock"
    /\ mu' = mu \ {t}
    /\ hash_thr' = [hash_thr EXCEPT ![t].pc = "run", ![t].i = NextOwn(hash_thr[t].i + 1, t)]
    /\ UNCHANGED <<inputs, hash_list, image_similarities, image_clusters, pc, k,
                   cmp_thr, compared, cluster_it, cout, others, prev>>

\* main: t[i].join()
JoinMapHash ==
    /\ pc = "hash_join"
    /\ tool \in {"unique", "search"}
    /\ Joinable(hash_thr[k])
    /\ IF k + 1 < num_threads
       THEN k' = k + 1 /\ pc' = pc /\ cout' = cout
       ELSE /\ k' = 0
            /\ pc' = IF tool = "unique" THEN "deltas" ELSE "scan"
            /\ cout' = IF tool = "unique"
                       THEN Append(cout, Out("Finished hash calculation.", 0, "\n"))
                       ELSE cout
    /\ UNCHANGED <<inputs, hash_list, image_similarities, image_clusters, mu,
                   hash_thr, cmp_thr, compared, cluster_it, others, prev>>

----------------------------------------------------------------------------
\* The older variant of the clustering tool (option -u)

OldCheckArgs ==
    /\ pc = "args"
    /\ tool = "unique"
    /\ IF target = "missing"
       THEN /\ cout' = <<Out("Error: missing argument -d", 0, "\n")>>
            /\ pc' = "done"
       ELSE IF target = "nodir"
       THEN /\ cout' = <<Out("Error: Couldn't open", 0, "\n")>>
            /\ pc' = "done"
       ELSE /\ cout' = <<Out("Filelist created", Size(file_list), " files.\n")>>
            /\ pc' = "hash_spawn"
    /\ UNCHANGED <<inputs, hash_list, image_similarities, image_clusters, mu, k,
                   hash_thr, cmp_thr, compared, cluster_it, others, prev>>

\* the map of all pairs of hashed images to their hash difference
ImageDeltas(hashes) == [p \in PairsOf(DOMAIN hashes) |-> Compare(p[1], p[2])]

CalculateDeltas ==
    /\ pc = "deltas"
    /\ image_deltas' = ImageDeltas(hash_list)
    /\ compared' = SetToBag({<<p[1], p[2], 0>> : p \in PairsOf(DOMAIN hash_list)})
    /\ cout' = Append(cout, Out("Hash distances calculated",
                                Size(ImageDeltas(hash_list)), " image pairs.\n"))
    /\ pc' = "similarities"
    /\ UNCHANGED <<inputs, hash_list, image_similarities, image_clusters, mu, k,
                   hash_thr, cmp_thr, cluster_it, unique_images, search_hash_values,
                   results, walk, viewer, prev>>

\* mutant of AdjacencyLists: a similar pair is entered for its first image only
AdjacencyLists_one_direction(hashes, deltas, th) ==
    [i \in DOMAIN hashes |->
        {j \in DOMAIN hashes : <<i, j>> \in DOMAIN deltas /\ deltas[<<i, j>>] <= th}]

\* an entry for every hashed image, and both directions of every pair of
\* image_deltas within the threshold
AdjacencyLists(hashes, deltas, th) ==
    [i \in DOMAIN hashes |->
        {j \in DOMAIN hashes :
            \/ <<i, j>> \in DOMAIN deltas /\ deltas[<<i, j>>] <= th
            \/ <<j, i>> \in DOMAIN deltas /\ deltas[<<j, i>>] <= th}]

CreateAdjacencyLists ==
    /\ pc = "similarities"
    /\ image_similarities' = AdjacencyLists(hash_list, image_deltas, threshold)
    /\ cout' = Append(cout, Out("Adjacency lists created.", 0, "\n"))
    /\ pc' = "old_cluster"
    /\ UNCHANGED <<inputs, hash_list, image_clusters, mu, k, hash_thr, cmp_thr,
                   compared, cluster_it, others, prev>>

RECURSIVE old_build_temp_cluster(_, _, _)
RECURSIVE OldVisitNeighbours(_, _, _)

OldVisitNeighbours(temp_cluster, sims, rest) ==
    IF rest = {} THEN temp_cluster
    ELSE LET i == Min(rest)
         IN  IF i \in temp_cluster
             THEN OldVisitNeighbours(temp_cluster, sims, rest \ {i})
             ELSE OldVisitNeighbours(old_build_temp_cluster(temp_cluster \cup {i}, sims, i),
                                     sims, rest \ {i})

\* mutant of old_build_temp_cluster: the recursive call is missing
old_build_temp_cluster_direct(temp_cluster, sims, start) ==
    temp_cluster \cup sims[start]

\* build_temp_cluster of the older variant: image_similarities.at(start)
old_build_temp_cluster(temp_cluster, sims, start) ==
    OldVisitNeighbours(temp_cluster, sims, sims[start])

\* one iteration of the loop over image_similarities
OldClusterStep ==
    /\ pc = "old_cluster"
    /\ cluster_it < Size(image_similarities)
    /\ LET first == KeyAt(DOMAIN image_similarities, cluster_it + 1)
           second == image_similarities[first]
       IN  IF second = {}
           THEN /\ unique_images' = unique_images \cup {first}
                /\ image_clusters' = image_clusters
           ELSE /\ image_clusters' =
                     MergeOrPush(image_clusters,
                                 old_build_temp_cluster({first}, image_similarities, first))
                /\ unique_images' = unique_images
    /\ cluster_it' = cluster_it + 1
    /\ UNCHANGED <<inputs, hash_list, image_similarities, mu, pc, k, hash_thr,
                   cmp_thr, compared, cout, image_deltas, search_hash_values,
                   results, walk, viewer, prev>>

\* the paths of the ids of a set, one per line
PrintPaths(S) == [m \in 1 .. Cardinality(S) |-> Out("path", InOrder(S)[m], "\n")]

\* the clusters and, with -u, the unique images are printed; main returns
OldPrint ==
    /\ pc = "old_cluster"
    /\ cluster_it = Size(image_similarities)
    /\ cout' = cout \o PrintFrom(image_clusters, 1, FALSE)
                    \o (IF show_unique
                        THEN <<Out("unique images:", 0, "\n")>> \o PrintPaths(unique_images)
                        ELSE <<>>)
    /\ pc' = "done"
    /\ UNCHANGED <<inputs, hash_list, image_similarities, image_clusters, mu, k,
                   hash_thr, cmp_thr, compared, cluster_it, others, prev>>

InitOld ==
    \E tg \in {"missing", "nodir", "ok"}, su \in BOOLEAN :
      \E fl \in FileLists(MaxFiles, MaxUnreadable) :
        \E d \in Distances(fl, DistRange, MaxFiles * MaxFiles) :
          \E th \in DistRange, nt \in 1 .. MaxThreads :
              /\ Start("unique", tg, FALSE, su, fl, d, th, nt, EmptyMap, EmptyMap)
              /\ prev = NoPrev

\* the steps of main and of the workers up to the adjacency lists
OldPhaseSteps ==
    \/ OldCheckArgs
    \/ SpawnMapHash
    \/ \E t \in Threads : ReadImage(t)
    \/ \E t \in Threads : LockHash(t)
    \/ \E t \in Threads : InsertHash(t)
    \/ \E t \in Threads : UnlockHash(t)
    \/ JoinMapHash
    \/ CalculateDeltas
    \/ CreateAdjacencyLists

NextOld ==
    \/ OldPhaseSteps
    \/ OldClusterStep
    \/ OldPrint

SpecOld == InitOld /\ [][NextOld]_vars

----------------------------------------------------------------------------
\* img-search

\* calculate_hash_values(search_list, search_hash_values, hash_func, 0, 1), called
\* by main before any thread exists: an entry for every image with data
SearchHashes(list) == [i \in Readable(list) |-> "hash"]

\* the help message; or the hashes of the search list, then the file list is
\* read from stdin
SearchArgs ==
    /\ pc = "args"
    /\ tool = "search"
    /\ IF target = "help"
       THEN /\ cout' = <<Out("img-search usage:", 0, "\n")>>
            /\ pc' = "done"
            /\ search_hash_values' = search_hash_values
       ELSE /\ cout' = cout
            /\ pc' = "hash_spawn"
            /\ search_hash_values' = SearchHashes(search_list)
    /\ UNCHANGED <<inputs, hash_list, image_similarities, image_clusters, mu, k,
                   hash_thr, cmp_thr, compared, cluster_it, image_deltas,
                   unique_images, results, walk, viewer, prev>>

\* hash_func->compare(img_hash_values[it1->first], search_hash_values[it2->first])
SearchCompare(h, s) == sdist[<<h, s>>]

\* mutant of ScanResults: only distances below the threshold count
ScanResults_below(hashes, search_hashes, th) ==
    {h \in DOMAIN hashes : \E s \in DOMAIN search_hashes : SearchCompare(h, s) < th}

\* lines 199-213: the files within the threshold of some image of the search list
ScanResults(hashes, search_hashes, th) ==
    {h \in DOMAIN hashes : \E s \in DOMAIN search_hashes : SearchCompare(h, s) <= th}

Scan ==
    /\ pc = "scan"
    /\ results' = ScanResults(hash_list, search_hash_values, threshold)
    /\ compared' = SetToBag({<<h, s, 0>> : h \in DOMAIN hash_list,
                                          s \in DOMAIN search_hash_values})
    /\ pc' = "print"
    /\ UNCHANGED <<inputs, hash_list, image_similarities, image_clusters, mu, k,
                   hash_thr, cmp_thr, cluster_it, cout, image_deltas, unique_images,
                   search_hash_values, walk, viewer, prev>>

\* lines 218-221
PrintResults ==
    /\ pc = "print"
    /\ cout' = cout \o PrintPaths(results)
    /\ pc' = "done"
    /\ UNCHANGED <<inputs, hash_list, image_similarities, image_clusters, mu, k,
                   hash_thr, cmp_thr, compared, cluster_it, others, prev>>

InitSearch ==
    \E tg \in {"help", "ok"} :
      \E fl \in FileLists(SearchFiles, MaxUnreadable) :
        \E sl \in FileLists(MaxSearch, MaxSearch) :
          \E sd \in [Readable(fl) \X Readable(sl) -> DistRange] :
            \E th \in DistRange, nt \in 1 .. MaxThreads :
              /\ Start("search", tg, FALSE, FALSE, fl, EmptyMap, th, nt, sl, sd)
              /\ prev = NoPrev

NextSearch ==
    \/ SearchArgs
    \/ SpawnMapHash
    \/ \E t \in Threads : ReadImage(t)
    \/ \E t \in Threads : LockHash(t)
    \/ \E t \in Threads : InsertHash(t)
    \/ \E t \in Threads : UnlockHash(t)
    \/ JoinMapHash
    \/ Scan
    \/ PrintResults

SpecSearch == InitSearch /\ [][NextSearch]_vars

\* both variants of the clustering tool
InitBoth == Init \/ InitOld

NextBoth == Next \/ NextOld

SpecBoth == InitBoth /\ [][NextBoth]_vars

\* the scheduler lets a runnable thread take its next step; nothing is assumed
\* about the loop body of the older variant's clustering loop
FairBoth ==
    /\ SpecBoth
    /\ WF_vars(PhaseSteps \/ OldPhaseSteps)
    /\ WF_vars(ClusterStep)
    /\ WF_vars(PrintClusters \/ OldPrint)

\* the three tools
InitAll == InitBoth \/ InitSearch

NextAll == NextBoth \/ NextSearch

SpecAll == InitAll /\ [][NextAll]_vars

----------------------------------------------------------------------------
\* Vocabulary of the properties

\* the ids with a valid fingerprint
Valid == {i \in DOMAIN file_list : file_list[i]}

\* the distance of two distinct images is within the threshold
Similar(a, b) ==
    /\ a # b
    /\ dist[<<IF a < b THEN a ELSE b, IF a < b THEN b ELSE a>>] <= threshold

\* the ids connected to an id of S by a path of similar pairs of valid ids
RECURSIVE Reach(_)
Reach(S) ==
    LET T == S \cup {b \in Valid : \E a \in S : Similar(a, b)}
    IN  IF T = S THEN S ELSE Reach(T)

Component(a) == Reach({a})

Adj(i) == IF i \in DOMAIN image_similarities THEN image_similarities[i] ELSE {}

ClusterIndex == 1 .. Len(image_clusters)

Emitted == UNION {image_clusters[x] : x \in ClusterIndex}

\* C1: once the clustering loop has finished, no id is a member of two clusters
C1_ClustersDisjoint ==
    pc = "done" =>
        \A x, y \in ClusterIndex : x # y => image_clusters[x] \cap image_clusters[y] = {}

\* C2: two ids with valid fingerprints are in the same emitted cluster iff a path
\* of pairs within the threshold connects them
C2_SameClusterIffConnected ==
    pc = "done" =>
        \A a, b \in Valid :
            a # b => ((\E x \in ClusterIndex : {a, b} \subseteq image_clusters[x])
                        <=> b \in Component(a))

\* C3: after the comparator workers have joined, j is a neighbour of i iff i is a
\* neighbour of j
C3_GraphSymmetric ==
    pc \in {"cluster", "done"} =>
        \A i, j \in DOMAIN file_list : j \in Adj(i) <=> i \in Adj(j)

\* C4: the union of the emitted clusters is exactly the set of keys of
\* image_similarities
C4_ClustersCoverKeys ==
    pc = "done" => Emitted = DOMAIN image_similarities

\* C9: every cluster emitted at the smaller threshold of the previous run is a
\* subset of some cluster emitted at the larger threshold of this run
C9_ThresholdRefinement ==
    (pc = "done" /\ prev.valid /\ prev.threshold < threshold) =>
        \A x \in 1 .. Len(prev.clusters) :
            \E y \in ClusterIndex : prev.clusters[x] \subseteq image_clusters[y]

\* C6: a second run on the same images at the same threshold, with any worker
\* count and any interleaving, builds the same graph and emits the same clusters
C6_SameResultForAnyWorkers ==
    (prev.valid /\ prev.threshold = threshold) =>
        /\ pc \in {"cluster", "done"} => image_similarities = prev.sims
        /\ pc = "done" => image_clusters = prev.clusters

C6_Witness ==
    /\ pc = "done"
    /\ prev.valid
    /\ prev.num_threads # num_threads
    /\ Size(image_similarities) >= 2
    /\ image_clusters # <<>>

Unreadable == DOMAIN file_list \ Valid

\* C7: an image whose decode fails is never compared, has no edge and is in no
\* cluster and not in unique_images; every pair of readable images is still
\* compared and the run goes on: before the clustering loop some step of main or
\* of a worker is possible, and the loop is left after the last entry
C7_UnreadableExcluded ==
    /\ \A u \in Unreadable :
          /\ \A c \in BagToSet(compared) : c[1] # u /\ c[2] # u
          /\ \A p \in DOMAIN image_deltas : p[1] # u /\ p[2] # u
          /\ u \notin DOMAIN image_similarities
          /\ \A i \in DOMAIN image_similarities : u \notin image_similarities[i]
          /\ u \notin Emitted
          /\ u \notin unique_images
    /\ (target = "ok" /\ pc \in {"cluster", "old_cluster", "done"}) =>
          \A p \in PairsOf(Valid) :
              \E t \in Threads : <<p[1], p[2], t>> \in BagToSet(compared)
    /\ pc \notin {"cluster", "old_cluster", "done"} =>
          ENABLED (PhaseSteps \/ OldPhaseSteps)
    /\ pc \in {"cluster", "old_cluster"} => cluster_it <= Size(image_similarities)

C7_Witness ==
    /\ pc = "done"
    /\ Unreadable # {}
    /\ image_clusters # <<>>

HashFinished == \A u \in Threads : hash_thr[u].pc = "exit"

CmpStarted == \E t \in Threads : cmp_thr[t].pc # "unstarted"

CmpFinished == \A u \in Threads : cmp_thr[u].pc = "exit"

ClusterStarted == pc = "cluster" \/ cluster_it > 0 \/ image_clusters # <<>>

\* C10: a comparator worker exists only once every hash worker has returned, and
\* the clustering loop runs only once every comparator worker has returned
C10_PhaseBarrier ==
    /\ (CmpStarted \/ pc \in {"cmp_spawn", "cmp_join"}) => HashFinished
    /\ ClusterStarted => (HashFinished /\ CmpFinished)

C10_Witness ==
    /\ pc = "done"
    /\ num_threads > 1
    /\ cluster_it > 1

\* C5: in the older variant unique_images and the emitted clusters partition the
\* ids with a valid fingerprint, and unique_images holds exactly the ids without
\* a partner within the threshold
C5_UniquePartition ==
    (tool = "unique" /\ target = "ok" /\ pc = "done") =>
        /\ unique_images \cup Emitted = Valid
        /\ unique_images \cap Emitted = {}
        /\ \A x, y \in ClusterIndex :
              x # y => image_clusters[x] \cap image_clusters[y] = {}
        /\ unique_images = {i \in Valid : \A j \in Valid : ~Similar(i, j)}

C5_Witness ==
    /\ tool = "unique"
    /\ pc = "done"
    /\ unique_images # {}
    /\ image_clusters # <<>>

\* the files img-search has to report
Matching ==
    {h \in Valid : \E s \in Readable(search_list) : sdist[<<h, s>>] <= threshold}

\* C8: img-search prints exactly the files with a valid fingerprint within the
\* threshold of some search image with a valid fingerprint, each once
C8_SearchResult ==
    (tool = "search" /\ target = "ok" /\ pc = "done") =>
        /\ \A x \in 1 .. Len(cout) : cout[x].text = "path"
        /\ {cout[x].arg : x \in 1 .. Len(cout)} = Matching
        /\ Len(cout) = Cardinality(Matching)

C8_Witness ==
    /\ tool = "search"
    /\ pc = "done"
    /\ Len(cout) >= 1
    /\ \E h \in Valid : h \notin Matching
    /\ \E h \in Valid : \A s \in DOMAIN search_list :
          search_list[s] /\ sdist[<<h, s>>] <= threshold
    /\ Size(search_list) >= 2

----------------------------------------------------------------------------
\* The hash phase

\* what the fingerprint container holds for id i
Slot(m, i) == IF i \in DOMAIN m THEN m[i] ELSE "default"

HashPhase == pc \in {"hash_spawn", "hash_join"}

\* the hash workers have been joined and the container has not been cleared
HashJoined == pc \in {"cmp_spawn", "cmp_join", "deltas", "scan"}

\* a step writes the slot of id i
SlotWritten(i) == HashPhase /\ Slot(hash_list', i) # Slot(hash_list, i)

\* the step is a step of hash worker t, which is at id i
StepOfHashWorker(t, i) ==
    /\ hash_thr[t].i = i
    /\ hash_thr'[t] # hash_thr[t]
    /\ \A u \in Threads \ {t} : hash_thr'[u] = hash_thr[u]

----------------------------------------------------------------------------
\* The mutex

\* a step of the comparison phase changes the similarity graph
GraphMutated ==
    /\ tool = "cluster"
    /\ pc \in {"cmp_spawn", "cmp_join"}
    /\ image_similarities' # image_similarities

\* the step is a step of comparator worker t
StepOfCmpWorker(t) ==
    /\ cmp_thr'[t] # cmp_thr[t]
    /\ \A u \in Threads \ {t} : cmp_thr'[u] = cmp_thr[u]

\* worker t is between mu.lock() and mu.unlock()
InCriticalSection(t) ==
    IF tool = "cluster" THEN cmp_thr[t].pc \in {"insert", "unlock"}
    ELSE hash_thr[t].pc \in {"insert", "unlock"}

\* at most one worker holds mu, and only between lock and unlock, so never while
\* it reads an image, computes a hash or compares
MutexHeldForInsertOnly ==
    /\ Cardinality(mu) <= 1
    /\ \A t \in Threads : t \in mu <=> InCriticalSection(t)

\* a step that changes the graph is a step of the worker that holds mu
GraphMutatedUnderMutex == GraphMutated => \E t \in mu : StepOfCmpWorker(t)

----------------------------------------------------------------------------
\* The empty collection

EmptyInput == target = "ok" /\ Size(file_list) = 0

\* every worker main has created has returned
WorkersReturned ==
    /\ \A t \in Threads : hash_thr[t].pc = "exit"
    /\ tool = "cluster" => \A t \in Threads : cmp_thr[t].pc = "exit"

\* C13: with an empty input sequence the run comes to its end, and at the end
\* every worker of both phases has returned, there is no cluster and no unique
\* image, and no cluster or path has been printed
C13_EmptyInputCompletes ==
    /\ EmptyInput ~> (pc = "done")
    /\ []((EmptyInput /\ pc = "done") =>
            /\ WorkersReturned
            /\ image_clusters = <<>>
            /\ unique_images = {}
            /\ image_similarities = EmptyMap
            /\ \A x \in 1 .. Len(cout) :
                  cout[x].text \notin {"path", "image cluster", "ok1"})

C13_Witness ==
    /\ EmptyInput
    /\ pc = "done"
    /\ num_threads >= 2
    /\ WorkersReturned

----------------------------------------------------------------------------
\* The keys of the similarity graph

\* C14: in the clustering tool every key of image_similarities has a non-empty
\* neighbour set, during the comparison phase and after it, and "ok1" is never
\* printed
C14_KeysHaveNeighbours ==
    tool = "cluster" =>
        /\ \A i \in DOMAIN image_similarities : image_similarities[i] # {}
        /\ \A x \in 1 .. Len(cout) : cout[x].text # "ok1"

C14_Witness ==
    /\ tool = "cluster"
    /\ pc = "done"
    /\ Size(image_similarities) >= 2
    /\ cluster_it = Size(image_similarities)
    /\ num_threads >= 2

----------------------------------------------------------------------------
\* The target directory

\* the -d option is missing, or its argument is neither "-" nor a directory
BadTarget == target \in {"missing", "nodir"}

NoWorkerStarted ==
    \A t \in Threads : hash_thr[t].pc = "unstarted" /\ cmp_thr[t].pc = "unstarted"

\* C15: with a missing or invalid target the clustering tool goes from the
\* argument check straight to its end: no hash or comparator worker is ever
\* started, no image is compared, and no cluster is built or printed
C15_BadTargetEndsRun ==
    (tool = "cluster" /\ BadTarget) =>
        /\ pc \in {"args", "done"}
        /\ NoWorkerStarted
        /\ compared = EmptyBag
        /\ image_clusters = <<>>
        /\ \A x \in 1 .. Len(cout) : cout[x].text \notin {"path", "image cluster"}
        /\ pc = "done" => Len(cout) = 1

C15_Witness ==
    /\ tool = "cluster"
    /\ target = "nodir"
    /\ pc = "done"
    /\ Size(file_list) >= 2
    /\ \E p \in DOMAIN dist : dist[p] <= threshold

----------------------------------------------------------------------------
\* The output with -l

\* a run of the clustering tool with -l that passes the checks of its arguments
OneLineRun == tool = "cluster" /\ one_line /\ target = "ok"

\* one line per cluster: the paths of its members with a tab between two of them
RECURSIVE TabSeparatedLines(_)
TabSeparatedLines(clusters) ==
    IF clusters = <<>> THEN <<>>
    ELSE LET members == InOrder(Head(clusters))
         IN  [m \in 1 .. Len(members) |->
                 Out("path", members[m], IF m < Len(members) THEN "\t" ELSE "\n")]
             \o TabSeparatedLines(Tail(clusters))

\* one line per cluster: the paths of its members, a tab after each of them
RECURSIVE TabEndedLines(_)
TabEndedLines(clusters) ==
    IF clusters = <<>> THEN <<>>
    ELSE LET members == InOrder(Head(clusters))
         IN  [m \in 1 .. Len(members) |-> Out("path", members[m], "\t")]
             \o <<Out("", 0, "\n")>>
             \o TabEndedLines(Tail(clusters))

----------------------------------------------------------------------------
\* The seeds of the clustering loop

InClusterLoop == pc \in {"cluster", "old_cluster"}

\* the key of the entry the clustering loop visits next
Seed == KeyAt(DOMAIN image_similarities, cluster_it + 1)

\* a step of the clustering loop that seeds temp_cluster with the key of its entry
\* and calls build_temp_cluster
Traversed ==
    /\ InClusterLoop
    /\ cluster_it' = cluster_it + 1
    /\ image_similarities[Seed] # {}

\* C17 as stated: an id that already belongs to an emitted cluster is never the
\* seed of a traversal
C17_AssignedIdsSkipped == [][Traversed => Seed \notin Emitted]_vars

\* the step adds no cluster and removes no member of a cluster
MergedIntoExisting ==
    /\ Len(image_clusters') = Len(image_clusters)
    /\ \A x \in ClusterIndex : image_clusters[x] \subseteq image_clusters'[x]

\* C17 amended: an id that already belongs to an emitted cluster is traversed
\* again when the loop reaches its entry, but it never opens a new cluster: what
\* is collected from it is merged into an existing cluster
C17_AssignedIdsOpenNoCluster ==
    [][(Traversed /\ Seed \in Emitted) => MergedIntoExisting]_vars

C17_Witness ==
    /\ pc = "done"
    /\ Size(image_similarities) >= 2
    /\ \A i \in DOMAIN image_similarities : image_similarities[i] # {}
    /\ KeyAt(DOMAIN image_similarities, 2)
          \in image_similarities[KeyAt(DOMAIN image_similarities, 1)]
    /\ Len(image_clusters) = 1

----------------------------------------------------------------------------
\* The traversal

\* the clustering loop of the clustering tool is about to traverse from Seed
AboutToTraverse ==
    /\ tool = "cluster"
    /\ pc = "cluster"
    /\ cluster_it < Size(image_similarities)
    /\ image_similarities[Seed] # {}

\* C18: the set collected by seeding temp_cluster with an id and calling
\* build_temp_cluster is the connected component of that id in the relation of
\* the pairs within the threshold
C18_TempClusterIsComponent ==
    AboutToTraverse =>
        build_temp_cluster({Seed}, image_similarities, Seed) = Component(Seed)

----------------------------------------------------------------------------
\* The merge branch

\* temp_cluster after build_temp_cluster has returned
TempCluster ==
    IF tool = "cluster"
    THEN build_temp_cluster({Seed}, image_similarities, Seed)
    ELSE old_build_temp_cluster({Seed}, image_similarities, Seed)

\* some emitted cluster has a common element with temp_cluster: merged = true
Overlaps == TempCluster \cap Emitted # {}

----------------------------------------------------------------------------
\* The compare calls

\* the pairs that have been compared so far
ComparedPairs == {<<c[1], c[2]>> : c \in BagToSet(compared)}

\* C20: in the comparison phase of the clustering tool a compare call is made for
\* a pair i < j of ids with valid fingerprints only, by the worker i mod n, and
\* at most once; when the workers are joined, every such pair has been compared
C20_EachPairOnceByOwner ==
    tool = "cluster" =>
        /\ \A c \in BagToSet(compared) :
              /\ c[1] < c[2]
              /\ {c[1], c[2]} \subseteq Valid
              /\ c[3] = c[1] % num_threads
              /\ CopiesIn(c, compared) = 1
        /\ (target = "ok" /\ pc \in {"cluster", "done"}) =>
              ComparedPairs = PairsOf(Valid)

C20_Witness ==
    /\ tool = "cluster"
    /\ pc = "done"
    /\ num_threads >= 2
    /\ Unreadable # {}
    /\ Cardinality(ComparedPairs) >= 1
    /\ \E c \in BagToSet(compared) : c[3] = 1

----------------------------------------------------------------------------
\* The graph grows, then stays

\* a step removes no key and no neighbour
GraphOnlyGrows ==
    \A i \in DOMAIN image_similarities :
        /\ i \in DOMAIN image_similarities'
        /\ image_similarities[i] \subseteq image_similarities'[i]

\* C21: in the clustering tool no step removes a key or a neighbour of the
\* similarity graph, and once the comparator workers are joined the clustering
\* loop, build_temp_cluster included, and the output leave the graph as it is
C21_AppendOnlyThenFrozen ==
    [][tool = "cluster" =>
          /\ GraphOnlyGrows
          /\ pc \in {"cluster", "done"} => image_similarities' = image_similarities]_vars

C21_Witness ==
    /\ tool = "cluster"
    /\ pc = "done"
    /\ num_threads >= 2
    /\ cluster_it >= 1
    /\ \E i \in DOMAIN image_similarities : Cardinality(image_similarities[i]) >= 2

----------------------------------------------------------------------------
\* build_temp_cluster taken call by call (part_003 lines 154-173, part_001
\* lines 124-138) inside the cluster building loop

DfsNodes == 3
MaxEdges == 3

\* number of (id, neighbour) entries of a map
EdgeCount(g) == Cardinality({e \in (DOMAIN g) \X (UNION {g[a] : a \in DOMAIN g}) :
                                e[2] \in g[e[1]]})

\* the maps std::map<unsigned long, std::set<unsigned long>> over n ids with at
\* most maxEdges neighbour entries: any direction, cycles, mutual edges, self
\* loops, keys without neighbours and neighbours that are no key
Graphs(n, maxEdges) ==
    UNION {{g \in [keys -> SUBSET Ids(n)] : EdgeCount(g) <= maxEdges} :
           keys \in SUBSET Ids(n)}

\* image_similarities.at(id) is defined for every id the traversal reaches
Closed(g) == \A a \in DOMAIN g : g[a] \subseteq DOMAIN g

\* the start of a call build_temp_cluster(temp_cluster, image_similarities, start):
\* the neighbours the for loop of that call has still to visit
Call(start) ==
    [start |-> start,
     rest  |-> IF tool = "cluster" /\ start \notin DOMAIN image_similarities
               THEN {}
               ELSE image_similarities[start]]

\* mutant of Contains: no element is found in temp_cluster
Contains_nothing(cluster, i) == FALSE

\* temp_cluster.contains(i), temp_cluster.find(i) != temp_cluster.end()
Contains(cluster, i) == i \in cluster

\* the clustering loop starts with the graph already built
InitWalk ==
    \E tl \in {"cluster", "unique"}, g \in Graphs(DfsNodes, MaxEdges) :
        /\ tl = "unique" => Closed(g)
        /\ tool = tl
        /\ target = "ok"
        /\ one_line = FALSE
        /\ show_unique = FALSE
        /\ file_list = [x \in Ids(DfsNodes) |-> TRUE]
        /\ dist = EmptyMap
        /\ threshold = 0
        /\ num_threads = 1
        /\ search_list = EmptyMap
        /\ sdist = EmptyMap
        /\ hash_list = EmptyMap
        /\ image_similarities = g
        /\ image_clusters = <<>>
        /\ mu = {}
        /\ pc = "loop"
        /\ k = 0
        /\ hash_thr = NoThreads(1)
        /\ cmp_thr = NoThreads(1)
        /\ compared = EmptyBag
        /\ cluster_it = 0
        /\ cout = <<>>
        /\ image_deltas = EmptyMap
        /\ unique_images = {}
        /\ search_hash_values = EmptyMap
        /\ results = {}
        /\ Idle
        /\ prev = NoPrev

\* what the traversal leaves alone
walk_fixed == <<inputs, hash_list, image_similarities, mu, k, hash_thr, cmp_thr,
                compared, image_deltas, search_hash_values, results, viewer, prev>>

\* part_003 lines 344-355, part_001 lines 288-298: the next entry of the map; an
\* entry without neighbours is passed over, any other seeds temp_cluster and
\* calls build_temp_cluster
LoopEntry ==
    /\ pc = "loop"
    /\ cluster_it < Size(image_similarities)
    /\ LET first == KeyAt(DOMAIN image_similarities, cluster_it + 1)
       IN  IF image_similarities[first] = {}
           THEN /\ cluster_it' = cluster_it + 1
                /\ IF tool = "cluster"
                   THEN /\ cout' = Append(cout, Out("ok1", 0, "\n"))
                        /\ unique_images' = unique_images
                   ELSE /\ unique_images' = unique_images \cup {first}
                        /\ cout' = cout
                /\ UNCHANGED <<pc, walk>>
           ELSE /\ in_cluster' = {first}
                /\ stack' = <<Call(first)>>
                /\ calls' = SetToBag({first})
                /\ pc' = "dfs"
                /\ UNCHANGED <<cluster_it, cout, unique_images>>
    /\ UNCHANGED <<walk_fixed, image_clusters>>

\* one iteration of the for loop of the innermost call: an element already in
\* temp_cluster is passed over, a new one is added and build_temp_cluster is
\* called with it
ForNeighbour ==
    /\ pc = "dfs"
    /\ stack # <<>>
    /\ stack[Len(stack)].rest # {}
    /\ LET top  == stack[Len(stack)]
           i    == Min(top.rest)
           left == [stack EXCEPT ![Len(stack)].rest = @ \ {i}]
       IN  IF Contains(in_cluster, i)
           THEN /\ stack' = left
                /\ UNCHANGED <<in_cluster, calls>>
           ELSE /\ in_cluster' = in_cluster \cup {i}
                /\ stack' = Append(left, Call(i))
                /\ calls' = calls (+) SetToBag({i})
    /\ UNCHANGED <<walk_fixed, image_clusters, pc, cluster_it, cout, unique_images>>

\* the for loop of the innermost call is over (or start is no key): it returns
Return ==
    /\ pc = "dfs"
    /\ stack # <<>>
    /\ stack[Len(stack)].rest = {}
    /\ stack' = SubSeq(stack, 1, Len(stack) - 1)
    /\ UNCHANGED <<walk_fixed, image_clusters, pc, cluster_it, cout, unique_images,
                   in_cluster, calls>>

\* part_003 lines 357-382: the outermost call has returned, temp_cluster is
\* merged or pushed and the loop goes on
Unify ==
    /\ pc = "dfs"
    /\ stack = <<>>
    /\ image_clusters' = MergeOrPush(image_clusters, in_cluster)
    /\ cluster_it' = cluster_it + 1
    /\ pc' = "loop"
    /\ UNCHANGED <<walk_fixed, cout, unique_images, walk>>

\* the map has no further entry: the loop is left
LoopExit ==
    /\ pc = "loop"
    /\ cluster_it = Size(image_similarities)
    /\ pc' = "loop_end"
    /\ UNCHANGED <<walk_fixed, image_clusters, cluster_it, cout, unique_images, walk>>

NextWalk == LoopEntry \/ ForNeighbour \/ Return \/ Unify \/ LoopExit

SpecWalk == InitWalk /\ [][NextWalk]_vars

\* main is one thread: as long as a statement is left it is executed
FairWalk == SpecWalk /\ WF_vars(NextWalk)

\* build_temp_cluster was called with an id more than once for the current seed
ExpandedTwice == \E id \in DOMAIN calls : CopiesIn(id, calls) >= 2

\* a step that calls build_temp_cluster from within build_temp_cluster
RecursiveCall == pc = "dfs" /\ calls' # calls

\* the id of the call is one that this step added to temp_cluster
CallForNewId ==
    \E i \in in_cluster' \ in_cluster : calls' = calls (+) SetToBag({i})

\* C22: for every finite graph, with cycles, mutual edges and self loops, every
\* call of build_temp_cluster returns and the clustering loop is left; a
\* recursive call is made only for an id the same step added to temp_cluster,
\* and no id is the start of two calls for one seed
C22_TraversalTerminates ==
    /\ [](~ExpandedTwice)
    /\ [][RecursiveCall => CallForNewId]_vars
    /\ (pc = "dfs") ~> (stack = <<>>)
    /\ <>(pc = "loop_end")

\* a traversal over a graph with a mutual edge has returned with three ids, after
\* it passed over an element it had already collected
C22_Witness ==
    /\ pc = "dfs"
    /\ stack = <<>>
    /\ Cardinality(in_cluster) >= 3
    /\ \E a, b \in in_cluster :
          /\ a # b
          /\ a \in DOMAIN image_similarities /\ b \in DOMAIN image_similarities
          /\ b \in image_similarities[a]
          /\ a \in image_similarities[b]

----------------------------------------------------------------------------
\* view-similar (src/view-similar.cpp)

MaxLines == 2
MaxLineFiles == 2
MaxKeys == 3

KeyEsc == 27
KeyQ == 113
KeyLeft == 81
KeyRight == 83
KeyDown == 84
KeySpace == 32

\* what cv::waitKey(0) can return: the keys main tests for, 0, and -1 for any
\* other value
Keys == {0, KeyEsc, KeyQ, KeyLeft, KeyRight, KeyDown, KeySpace, -1}

\* the lines of std::cin: per line the files between the tabs, each one an
\* image imread can read or not
Inputs(maxLines, maxLineFiles, maxUnreadable) ==
    UNION {[1 .. n -> FileLists(maxLineFiles, maxUnreadable)] : n \in 0 .. maxLines}

\* files and images of the line read last
files == lines[line_no]

\* the path files.at(i) of the line read last
Path(i) == <<line_no, i>>

\* mutant of AfterKey: the right arrow always moves on
AfterKey_unchecked_right(cur, size, key) ==
    IF key = KeyLeft THEN (IF cur > 0 THEN cur - 1 ELSE 0)
    ELSE IF key = KeyRight THEN cur + 1
    ELSE cur

\* lines 56-59: current_image after the left or the right arrow
AfterKey(cur, size, key) ==
    IF key = KeyLeft THEN (IF cur > 0 THEN cur - 1 ELSE 0)
    ELSE IF key = KeyRight THEN (IF cur < size - 1 THEN cur + 1 ELSE cur)
    ELSE cur

\* images.at(i) is there and cv::imshow accepts it (it throws for an empty Mat)
Showable(i) == i \in DOMAIN files /\ files[i]

InitViewer ==
    \E in \in Inputs(MaxLines, MaxLineFiles, MaxUnreadable) :
        /\ tool = "viewer"
        /\ target = "ok"
        /\ one_line = FALSE
        /\ show_unique = FALSE
        /\ file_list = EmptyMap
        /\ dist = EmptyMap
        /\ threshold = 0
        /\ num_threads = 1
        /\ search_list = EmptyMap
        /\ sdist = EmptyMap
        /\ hash_list = EmptyMap
        /\ image_similarities = EmptyMap
        /\ image_clusters = <<>>
        /\ mu = {}
        /\ pc = "getline"
        /\ k = 0
        /\ hash_thr = NoThreads(1)
        /\ cmp_thr = NoThreads(1)
        /\ compared = EmptyBag
        /\ cluster_it = 0
        /\ cout = <<>>
        /\ image_deltas = EmptyMap
        /\ unique_images = {}
        /\ search_hash_values = EmptyMap
        /\ results = {}
        /\ stack = <<>>
        /\ in_cluster = {}
        /\ calls = EmptyBag
        /\ lines = in
        /\ line_no = 0
        /\ current_image = 0
        /\ last_key = 0
        /\ shown = NotShown
        /\ presses = 0
        /\ prev = NoPrev

\* what view-similar leaves alone
viewer_fixed == <<inputs, hash_list, image_similarities, image_clusters, mu, k,
                  hash_thr, cmp_thr, compared, cluster_it, image_deltas,
                  unique_images, search_hash_values, results, walk, lines, prev>>

\* lines 32-49: the next line is read and split; a line without a file is passed
\* over, any other starts the key loop with its first image
ReadLine ==
    /\ pc = "getline"
    /\ line_no < Len(lines)
    /\ line_no' = line_no + 1
    /\ current_image' = 0
    /\ IF Size(lines[line_no + 1]) = 0
       THEN UNCHANGED <<pc, last_key>>
       ELSE /\ last_key' = 1
            /\ pc' = "key_loop"
    /\ UNCHANGED <<viewer_fixed, cout, shown, presses>>

\* lines 32, 73: std::getline fails at the end of std::cin, main returns
EndOfInput ==
    /\ pc = "getline"
    /\ line_no = Len(lines)
    /\ pc' = "done"
    /\ UNCHANGED <<viewer_fixed, cout, viewer>>

\* lines 50-71: the test of the key loop and one pass through its body: the
\* status text is built, the key is handled, the image is shown with the status
\* text and the next key is waited for
KeyLoop ==
    /\ pc = "key_loop"
    /\ IF last_key = 0 \/ last_key = KeyDown
       THEN /\ pc' = "getline"
            /\ UNCHANGED <<cout, viewer>>
       ELSE IF last_key = KeyEsc \/ last_key = KeyQ
       THEN /\ pc' = "done"
            /\ UNCHANGED <<cout, viewer>>
       ELSE /\ current_image' = AfterKey(current_image, Size(files), last_key)
            /\ cout' = IF last_key = KeySpace
                       THEN Append(cout, Out("", Path(current_image), "\n"))
                       ELSE cout
            /\ IF Showable(current_image')
               THEN /\ shown' = [line |-> line_no, image |-> current_image',
                                 status |-> current_image + 1]
                    /\ \E key \in Keys :
                          /\ presses < MaxKeys \/ key = KeyEsc
                          /\ last_key' = key
                    /\ presses' = Min({presses + 1, MaxKeys})
                    /\ pc' = pc
               ELSE /\ pc' = "aborted"
                    /\ UNCHANGED <<shown, last_key, presses>>
            /\ UNCHANGED <<line_no>>
    /\ UNCHANGED viewer_fixed

NextViewer == ReadLine \/ EndOfInput \/ KeyLoop

SpecViewer == InitViewer /\ [][NextViewer]_vars

\* a pass through the body of the key loop with the given key
Handles(key) == pc = "key_loop" /\ last_key = key

\* current_image is an index of files
InRange == pc = "key_loop" => current_image \in 0 .. (Size(files) - 1)

\* C23: in the key loop files is not empty and current_image is one of its
\* indices whatever keys were pressed; the left arrow at the first image and the
\* right arrow at the last one leave current_image as it is, the down arrow
\* leaves the key loop for the next line, and space writes the path at
\* current_image and leaves current_image as it is
C23_CurrentImageInRange ==
    /\ [](InRange /\ (pc = "key_loop" => Size(files) > 0))
    /\ [][Handles(KeyLeft) /\ current_image = 0 => current_image' = 0]_vars
    /\ [][Handles(KeyRight) /\ current_image = Size(files) - 1
             => current_image' = current_image]_vars
    /\ [][Handles(KeyDown) => pc' = "getline" /\ UNCHANGED <<line_no, cout, shown>>]_vars
    /\ [][pc = "getline" /\ line_no < Len(lines) => line_no' = line_no + 1]_vars
    /\ [][Handles(KeySpace)
             => /\ cout' = Append(cout, Out("", Path(current_image), "\n"))
                /\ current_image' = current_image]_vars

\* on a line of two images the right arrow was pressed at the last image and
\* space after it: the path of the second image is written, the second image
\* stays the current one
C23_Witness ==
    /\ pc = "key_loop"
    /\ Size(files) = 2
    /\ current_image = 1
    /\ presses >= 3
    /\ cout = <<Out("", Path(1), "\n")>>
    /\ shown.image = 1

----------------------------------------------------------------------------
\* the window shows an image
ImageShown == shown # NotShown

\* C24: whenever view-similar shows an image, the position in the status text
\* shown with it is that of the image passed to imshow: the status index is
\* current_image + 1, after every key
C24_StatusDescribesShownImage ==
    ImageShown => /\ shown.status = shown.image + 1
                  /\ pc = "key_loop" => shown.image = current_image

====
